---- MODULE Spec2Model ----
(***************************************************************************)
(* A model of odm.BaseModel (src/odm/__init__.py): the filter compiler,    *)
(* the coercions, the aggregation-pipeline synthesizer, and find / count / *)
(* paged / remove / save against an in-memory document store.              *)
(*                                                                         *)
(* Values are tagged records [t |-> tag, v |-> payload]:                   *)
(*   "none"  Python None            "str"   a string (sequence of chunks)   *)
(*   "oid"   bson.ObjectId          "date"  datetime (in clock ticks)       *)
(*   "int"   int                    "list"  list (sequence of values)       *)
(*   "dict"  dict (a map)           "bool"  bool                            *)
(* A string is a sequence of chunks; the first chunk of a date string is   *)
(* its first 19 characters, so that s[:19] is <<Head(s)>>.                 *)
(* A dict / document is a function from key names to values.               *)
(***************************************************************************)
EXTENDS Integers, Sequences, FiniteSets, TLC

\* ------------------------------------------------------------------ bounds
\* The clock stops the model after MaxTime ticks (one tick per call that writes).
MaxTime == 3
\* The store hands out at most MaxId fresh identifiers.
MaxId == 3

\* ------------------------------------------------------------- the values
None == [t |-> "none", v |-> 0]
Str(chunks) == [t |-> "str", v |-> chunks]
S(s) == Str(<<s>>)
Oid(n) == [t |-> "oid", v |-> n]
Date(k) == [t |-> "date", v |-> k]
IntV(n) == [t |-> "int", v |-> n]
List(seq) == [t |-> "list", v |-> seq]
Dict(m) == [t |-> "dict", v |-> m]
Bool(b) == [t |-> "bool", v |-> b]

\* Python truthiness of a value (None, "", [], {}, 0 and False are falsy).
Truthy(x) ==
  CASE x.t = "none" -> FALSE
    [] x.t = "str" -> x.v # <<>> /\ x.v # <<"">>
    [] x.t = "list" -> x.v # <<>>
    [] x.t = "dict" -> DOMAIN x.v # {}
    [] x.t = "int" -> x.v # 0
    [] x.t = "bool" -> x.v
    [] OTHER -> TRUE

\* ---------------------------------------------------------------- the maps
EmptyMap == [k \in {} |-> None]
\* dict.get(k): None when the key is absent.
Get(m, k) == IF k \in DOMAIN m THEN m[k] ELSE None
\* m[k] = v
Put(m, k, v) == [x \in DOMAIN m \cup {k} |-> IF x = k THEN v ELSE m[x]]
\* del m[k]
Del(m, k) == [x \in DOMAIN m \ {k} |-> m[x]]
\* m restricted to the keys in ks
Restrict(m, ks) == [x \in DOMAIN m \cap ks |-> m[x]]

\* The outcome of a computation that may raise.
Ok(v) == [ok |-> TRUE, val |-> v]
Err(e) == [ok |-> FALSE, err |-> e]

\* --------------------------------------------- identifiers and date strings
\* str(ObjectId): the 24-hex-digit string of an identifier, abstracted to a name.
OidStr(n) ==
  CASE n = 1 -> "id1" [] n = 2 -> "id2" [] n = 3 -> "id3" [] n = 4 -> "id4"
    [] n = 5 -> "id5" [] n = 6 -> "id6" [] n = 7 -> "id7" [] OTHER -> "id8"
AllOids == 1..8
\* The same 24 hex digits written in upper case: ObjectId() reads the digits
\* of either case, str() writes lower case.
OidUpper(n) ==
  CASE n = 1 -> "ID1" [] n = 2 -> "ID2" [] n = 3 -> "ID3" [] n = 4 -> "ID4"
    [] n = 5 -> "ID5" [] n = 6 -> "ID6" [] n = 7 -> "ID7" [] OTHER -> "ID8"
OidSpellings(n) == {OidStr(n), OidUpper(n)}
\* ObjectId(s): parses a valid identifier string, raises InvalidId otherwise.
ParseOid(x) ==
  IF x.t = "oid" THEN Ok(x)
  ELSE IF x.t = "str" /\ Len(x.v) = 1 /\ \E n \in AllOids : x.v[1] \in OidSpellings(n)
       THEN Ok(Oid(CHOOSE n \in AllOids : x.v[1] \in OidSpellings(n)))
       ELSE Err("InvalidIdentifier")

\* A datetime is a number of clock ticks; TicksPerSec ticks make one second, the
\* remainder is the microsecond part.
TicksPerSec == 2
\* The 19 characters "YYYY-MM-DDTHH:MM:SS" of second n.
SecStr(n) ==
  CASE n = 0 -> "2020-01-01T00:00:00" [] n = 1 -> "2020-01-01T00:00:01"
    [] n = 2 -> "2020-01-01T00:00:02" [] n = 3 -> "2020-01-01T00:00:03"
    [] OTHER -> "2020-01-01T00:00:04"
AllSecs == 0..4
\* datetime.isoformat(): the fraction is printed only when it is not zero.
IsoFormat(k) ==
  <<SecStr(k \div TicksPerSec)>> \o
    (IF k % TicksPerSec = 0 THEN <<>> ELSE <<".500000">>)
\* A parse that reads the fraction after the seconds as well.
ParseDateWithFraction(x) ==
  IF x.t = "str" /\ x.v # <<>> /\ \E n \in AllSecs : SecStr(n) = x.v[1]
  THEN Ok(Date(TicksPerSec * (CHOOSE n \in AllSecs : SecStr(n) = x.v[1])
               + (IF Len(x.v) > 1 /\ x.v[2] = ".500000" THEN 1 ELSE 0)))
  ELSE Err("InvalidDate")
\* datetime.strptime(param[:19], "%Y-%m-%dT%H:%M:%S"): only the first 19
\* characters are read, so the result has whole seconds.
ParseDate(x) ==
  IF x.t = "str" /\ x.v # <<>> /\ \E n \in AllSecs : SecStr(n) = x.v[1]
  THEN Ok(Date(TicksPerSec * (CHOOSE n \in AllSecs : SecStr(n) = x.v[1])))
  ELSE Err("InvalidDate")

\* ---------------------------------------------------------------- the schema
\* data_types.Types and data_types.Relations
TString == "String"
TISODate == "ISODate"
TObjectId == "ObjectId"
RelationKinds == {"hasMany", "hasOne", "belongsToMany", "belongsTo", "manyToMany"}
ListKinds == {"hasMany", "belongsToMany", "manyToMany"}

\* The kind under test ("orders") declares these fields, protects "password"
\* and has one relation, "items", to the kind "items"; the related kind
\* protects "secret".  The relation's type, its cascade set and the two
\* soft-delete switches are drawn in Init.
ParentCollection == "orders"
ChildCollection == "items"
JoinCollection == "order_items"
RelName == "items"
ParentDeclared == [_id |-> TObjectId, name |-> TString, password |-> TString]
ChildDeclared ==
  [_id |-> TObjectId, order_id |-> TObjectId, sku |-> TString, secret |-> TString]
ParentProtected == {"password"}
ChildProtected == {"secret"}
CascadeChoices == {{}, {"CREATE"}, {"CREATE", "UPDATE", "DELETE"}}

\* The relation descriptor self.relations["items"] for a relation type.
Relation(sc) ==
  [type |-> sc.type,
   cascade |-> sc.cascade,
   softDeletes |-> sc.relSoftDeletes,
   localKey |-> "_id",
   foreignKey |-> IF sc.type = "manyToMany" THEN "_id" ELSE "order_id",
   joinCollection |-> JoinCollection,
   localJoinKey |-> "order_id",
   foreignJoinKey |-> "item_id"]

VARIABLES
  schema,   \* the declared relation type, cascade and soft-delete switches
  fields,   \* self.fields of the model under test: field name -> type
  db,       \* the store: collection name -> set of documents
  nextId,   \* the next identifier the store generates
  now,      \* datetime.utcnow(), in ticks
  call,     \* the last call: its name and arguments
  ret,      \* what the last call returned or raised
  trips     \* the store round trips of the last call, in order

vars == <<schema, fields, db, nextId, now, call, ret, trips>>

\* ------------------------------------------------------------- sort_query
\* str.split(','): the pieces between the "," chunks of a string, each piece
\* one chunk ("" for an empty piece).
RECURSIVE SplitComma(_)
SplitComma(chunks) ==
  IF chunks = <<>> THEN <<"">>
  ELSE IF Head(chunks) = "," THEN <<"">> \o SplitComma(Tail(chunks))
  ELSE LET rest == SplitComma(Tail(chunks))
       IN  <<Head(chunks) \o Head(rest)>> \o Tail(rest)

\* {f: dir for f in names}: a dict keeps the position of a key's first
\* assignment and the value of its last.
RECURSIVE SortOf(_, _)
SortOf(names, dir) ==
  IF names = <<>> THEN <<>>
  ELSE LET before == SortOf(SubSeq(names, 1, Len(names) - 1), dir)
           f == names[Len(names)]
       IN  IF \E i \in 1..Len(before) : before[i].k = f
           THEN before
           ELSE Append(before, [k |-> f, d |-> dir])

\* int(x) for the values a "sort" parameter takes.
IntOf(x) ==
  CASE x.t = "int" -> Ok(x.v)
    [] x.t = "str" /\ x.v = <<"1">> -> Ok(1)
    [] x.t = "str" /\ x.v = <<"-1">> -> Ok(-1)
    [] x.t = "str" /\ x.v = <<"2">> -> Ok(2)
    [] x.t = "str" /\ x.v = <<"0">> -> Ok(0)
    [] OTHER -> Err("ValueError")

\* A sort mapping given as a dict of one key, as a sequence of (key, direction).
SortOfDict(x) ==
  IF x.t = "dict"
  THEN IF DOMAIN x.v = {} THEN <<>>
       ELSE LET f == CHOOSE f \in DOMAIN x.v : TRUE
            IN  <<[k |-> f, d |-> x.v[f].v]>>
  ELSE <<>>

\* BaseModel.sort_query: each later "if" overwrites what the earlier one set.
sort_query(params) ==
  LET s1 == IF Truthy(Get(params, "sort_asc"))
            THEN Ok(SortOf(SplitComma(params["sort_asc"].v), 1))
            ELSE Err("unset")
      s2 == IF Truthy(Get(params, "sort_desc"))
            THEN Ok(SortOf(SplitComma(params["sort_desc"].v), -1))
            ELSE s1
      s3 == IF Truthy(Get(params, "sort"))
            THEN IF IntOf(params["sort"]).ok
                 THEN Ok(<<[k |-> "_id", d |-> IntOf(params["sort"]).val]>>)
                 ELSE Ok(SortOfDict(params["sort"]))
            ELSE s2
  IN  IF s3.ok THEN s3.val ELSE <<[k |-> "_id", d |-> 1]>>

\* ------------------------------------------------------------------ filter
\* The registry after `fields = self.fields; fields["created_at"] = ...;
\* fields["updated_at"] = ...`: the assignment goes through the alias into
\* self.fields.
WithTimestamps(flds) ==
  Put(Put(flds, "created_at", TISODate), "updated_at", TISODate)

\* "$regex" in param
HasRegex(param) ==
  CASE param.t = "str" -> Ok(\E i \in 1..Len(param.v) : param.v[i] = "$regex")
    [] param.t = "dict" -> Ok("$regex" \in DOMAIN param.v)
    [] param.t = "list" -> Ok(\E i \in 1..Len(param.v) : param.v[i] = S("$regex"))
    [] OTHER -> Err("TypeError")

\* str(x)
StrOf(x) ==
  CASE x.t = "str" -> x
    [] x.t = "oid" -> S(OidStr(x.v))
    [] x.t = "none" -> S("None")
    [] OTHER -> S("<repr>")

\* [ObjectId(_id) for _id in xs]
RECURSIVE ParseOidList(_)
ParseOidList(xs) ==
  IF xs = <<>> THEN Ok(<<>>)
  ELSE LET h == ParseOid(Head(xs))
           r == ParseOidList(Tail(xs))
       IN  IF ~h.ok THEN h
           ELSE IF ~r.ok THEN r
           ELSE Ok(<<h.val>> \o r.val)

\* The keys that filter() does not copy from the parameters.
FilterSkippedKeys == {"sort", "sort_asc", "sort_desc", "page", "page_size"}

\* One iteration of filter()'s loop: what is stored under `name`, if anything.
\* Ok([emit |-> FALSE]) when the iteration stores nothing.
FilterEntry(flds, name, param) ==
  LET emit(v) == Ok([emit |-> TRUE, v |-> v])
      skip == Ok([emit |-> FALSE, v |-> None])
  IN
  IF name \in DOMAIN flds
  THEN CASE flds[name] = TObjectId ->
              IF param.t = "str"
              THEN IF ParseOid(param).ok THEN emit(ParseOid(param).val)
                   ELSE Err("InvalidIdentifier")
              ELSE IF param.t = "dict"
              THEN IF Truthy(Get(param.v, "$in"))
                   THEN LET ids == ParseOidList(param.v["$in"].v)
                        IN  IF ids.ok
                            THEN emit(Dict(Put(param.v, "$in", List(ids.val))))
                            ELSE Err("InvalidIdentifier")
                   ELSE skip
              \* type(param) == Types.ObjectId compares a type with the string
              \* "ObjectId" and is never true
              ELSE Err("UnsupportedFilterShape")
         [] flds[name] = TISODate ->
              IF param.t = "str"
              THEN IF ParseDate(param).ok THEN emit(ParseDate(param).val)
                   ELSE Err("InvalidDate")
              ELSE emit(param)
         [] flds[name] = TString ->
              IF ~HasRegex(param).ok THEN Err("TypeError")
              ELSE IF HasRegex(param).val THEN emit(param)
              ELSE emit(Dict([x \in {"$regex", "$options"} |->
                     IF x = "$regex"
                     THEN Str(<<".*">> \o StrOf(param).v \o <<".*">>)
                     ELSE S("ig")]))
         [] OTHER -> emit(param)
  ELSE IF name \notin FilterSkippedKeys THEN emit(param) ELSE skip

\* BaseModel.filter, on the registry as the aliasing left it.
filter(flds0, params) ==
  LET flds == WithTimestamps(flds0)
      entry(name) == FilterEntry(flds, name, params[name])
      bad == {name \in DOMAIN params : ~entry(name).ok}
      kept == {name \in DOMAIN params : entry(name).ok /\ entry(name).val.emit}
      query == [name \in kept |-> entry(name).val.v]
  IN  IF bad # {} THEN Err(entry(CHOOSE name \in bad : TRUE).err)
      ELSE IF Truthy(Get(params, "$or")) THEN Ok(Put(query, "$or", params["$or"]))
      ELSE Ok(query)

\* --------------------------------------------------------- preparse_fields
\* The storage value of one declared field (wire -> storage).
PreparseValue(type, param) ==
  CASE type = TObjectId -> ParseOid(param)
    [] type = TISODate -> ParseDate(param)
    [] type = TString -> Ok(StrOf(param))
    [] OTHER -> Ok(param)

\* BaseModel.preparse_fields: only the fields of the registry are read.
preparse_fields(flds, params) ==
  LET names == {name \in DOMAIN flds : Get(params, name) # None}
      bad == {name \in names : ~PreparseValue(flds[name], params[name]).ok}
  IN  IF bad # {}
      THEN Err(PreparseValue(flds[CHOOSE name \in bad : TRUE],
                             params[CHOOSE name \in bad : TRUE]).err)
      ELSE Ok([name \in names |-> PreparseValue(flds[name], params[name]).val])

\* ---------------------------------------------------------------- dict_rep
\* The wire value of one declared field (storage -> wire).
RepValue(type, param) ==
  CASE type = TObjectId -> Ok(StrOf(param))
    [] type = TISODate ->
         IF param.t = "date" THEN Ok(Str(IsoFormat(param.v) \o <<"Z">>))
         ELSE Err("AttributeError")
    [] type = TString -> Ok(StrOf(param))
    [] OTHER -> Ok(param)

\* The first loop of dict_rep, over the registry with the timestamps added.
DictRepFields(flds0, params) ==
  LET flds == WithTimestamps(flds0)
      names == {name \in DOMAIN flds : Get(params, name) # None}
      bad == {name \in names : ~RepValue(flds[name], params[name]).ok}
  IN  IF bad # {} THEN Err("AttributeError")
      ELSE Ok([name \in names |-> RepValue(flds[name], params[name]).val])

\* dict_rep of the related kind (it declares no relations); x.get fails on a
\* value that is not a dict.
ChildDictRep(x) ==
  IF x.t = "dict" THEN DictRepFields(ChildDeclared, x.v) ELSE Err("AttributeError")

RECURSIVE ChildDictRepList(_)
ChildDictRepList(xs) ==
  IF xs = <<>> THEN Ok(<<>>)
  ELSE LET h == ChildDictRep(Head(xs))
           r == ChildDictRepList(Tail(xs))
       IN  IF ~h.ok THEN h
           ELSE IF ~r.ok THEN r
           ELSE Ok(<<Dict(h.val)>> \o r.val)

\* BaseModel.dict_rep of the kind under test: the declared fields, then the
\* relation value, element by element for the list-shaped relation types.
dict_rep(flds, relType, params) ==
  LET own == DictRepFields(flds, params)
      rel == Get(params, RelName)
  IN  IF ~own.ok THEN own
      ELSE IF rel = None THEN own
      ELSE IF relType \in ListKinds
      THEN IF rel.t # "list" THEN Err("AttributeError")
           ELSE LET items == ChildDictRepList(rel.v)
                IN  IF items.ok THEN Ok(Put(own.val, RelName, List(items.val)))
                    ELSE items
      ELSE LET one == ChildDictRep(rel)
           IN  IF one.ok THEN Ok(Put(own.val, RelName, Dict(one.val))) ELSE one

\* ----------------------------------------------------------------- paginate
DefaultPage == 0
DefaultPageSize == 50

\* A paginate that reads no page and no page_size from its parameters.
paginateDefaults(params) ==
  [sort |-> sort_query(params), page |-> DefaultPage, page_size |-> DefaultPageSize]

\* BaseModel.paginate
paginate(params) ==
  [sort |-> sort_query(params),
   page |-> IF Truthy(Get(params, "page"))
            THEN IntOf(params["page"]).val ELSE DefaultPage,
   page_size |-> IF Truthy(Get(params, "page_size"))
                 THEN IntOf(params["page_size"]).val ELSE DefaultPageSize]

\* --------------------------------------------------- clean_protected_fields
\* clean_protected_fields on one record: `del result[p]` for every protected
\* field p of the model that is present and not force-fetched.
CleanRecord(protected, result, force) ==
  [k \in DOMAIN result \ {p \in protected : Get(result, p) # None /\ p \notin force}
     |-> result[k]]

\* clean_protected_fields on a value of the related kind: a list is cleaned
\* element by element, a record as above.
CleanChildValue(x, force) ==
  IF x.t = "list"
  THEN List([i \in 1..Len(x.v) |-> Dict(CleanRecord(ChildProtected, x.v[i].v, force))])
  ELSE Dict(CleanRecord(ChildProtected, x.v, force))

\* ------------------------------------------------ the store: query matching
\* Lower case of the chunks the model's strings are made of.
Lower(c) == CASE c = "Ann" -> "ann" [] c = "Bob" -> "bob" [] OTHER -> c

\* Whether the regular expression ".*needle.*" with option i finds a match in
\* the string hay: needle's chunks occur, in a row, in hay's.
RegexFinds(pattern, hay) ==
  LET needle == SubSeq(pattern, 2, Len(pattern) - 1)
      n == Len(needle)
  IN  \E i \in 0..(Len(hay) - n) :
        \A j \in 1..n : Lower(hay[i + j]) = Lower(needle[j])

\* One condition of a query document against a document's field.
MatchesCond(doc, k, cond) ==
  IF cond.t = "dict" /\ "$exists" \in DOMAIN cond.v
  THEN (k \in DOMAIN doc) = cond.v["$exists"].v
  ELSE IF cond.t = "dict" /\ "$regex" \in DOMAIN cond.v
  THEN /\ k \in DOMAIN doc
       /\ doc[k].t = "str"
       /\ cond.v["$regex"].t = "str"
       /\ RegexFinds(cond.v["$regex"].v, doc[k].v)
  ELSE IF cond.t = "dict" /\ "$in" \in DOMAIN cond.v
  THEN \E i \in 1..Len(cond.v["$in"].v) : Get(doc, k) = cond.v["$in"].v[i]
  ELSE Get(doc, k) = cond

\* A query document without "$or" against a document: every condition holds.
MatchesAll(doc, q) == \A k \in DOMAIN q : MatchesCond(doc, k, q[k])

\* A query document against a document; "$or" holds a list of query documents.
Matches(doc, q) ==
  /\ MatchesAll(doc, Del(q, "$or"))
  /\ "$or" \in DOMAIN q =>
       /\ q["$or"].t = "list"
       /\ \E i \in 1..Len(q["$or"].v) : MatchesAll(doc, q["$or"].v[i].v)

\* ------------------------------------------------------- the store: sorting
StrRank(chunks) ==
  CASE chunks = <<"Ann">> -> 1 [] chunks = <<"Bob">> -> 2 [] OTHER -> 0
\* The position of a value in the store's sort order (a missing field first).
SortRank(x) ==
  CASE x.t = "none" -> -1
    [] x.t = "str" -> StrRank(x.v)
    [] x.t \in {"oid", "date", "int"} -> x.v
    [] OTHER -> 0

\* Whether document a goes strictly before b under the sort mapping `by`.
RECURSIVE Before(_, _, _)
Before(a, b, by) ==
  IF by = <<>> THEN FALSE
  ELSE LET ra == SortRank(Get(a, Head(by).k)) * Head(by).d
           rb == SortRank(Get(b, Head(by).k)) * Head(by).d
       IN  IF ra # rb THEN ra < rb ELSE Before(a, b, Tail(by))

\* A stable sort of a sequence of documents.
RECURSIVE SortDocs(_, _)
SortDocs(docs, by) ==
  IF docs = <<>> THEN <<>>
  ELSE LET rest == SortDocs(Tail(docs), by)
           h == Head(docs)
           \* h goes before the first element of rest that is not before h
           pos == Cardinality({i \in 1..Len(rest) :
                    \A j \in 1..i : Before(rest[j], h, by)})
       IN  SubSeq(rest, 1, pos) \o <<h>> \o SubSeq(rest, pos + 1, Len(rest))

\* The documents of a collection in their natural order (by identifier; the
\* rows of the join collection, which the model gives no identifier, by keys).
RECURSIVE NaturalOrder(_)
NaturalOrder(docs) ==
  IF docs = {} THEN <<>>
  ELSE LET least == CHOOSE d \in docs : \A e \in docs :
                      \/ d = e
                      \/ Before(d, e, <<[k |-> "_id", d |-> 1],
                                        [k |-> "order_id", d |-> 1],
                                        [k |-> "item_id", d |-> 1]>>)
       IN  <<least>> \o NaturalOrder(docs \ {least})

\* ----------------------------------------------------------- relationships
\* A first stage that holds a copy of criteria as it is when the stage is built.
MatchStageCopy(criteria) == [op |-> "$match", q |-> criteria, alias |-> FALSE]

\* The first stage, {"$match": criteria}: the stage holds the caller's
\* criteria dict itself, not a copy (alias), so what the caller stores in
\* criteria before the pipeline is sent is part of the stage.
MatchStage(criteria) == [op |-> "$match", q |-> criteria, alias |-> TRUE]
SortStage(by) == [op |-> "$sort", by |-> by]

\* The keys of the projection: every field of the registry, minus the
\* protected ones that are not force-fetched.
ProjectKeys(flds, force) ==
  {k \in DOMAIN flds : ~(k \in ParentProtected /\ k \notin force)}

\* The stages that fetch the relation, by relation type.
LookupStages(rel, flds, force) ==
  IF rel.type = "manyToMany"
  THEN << [op |-> "$lookup", from |-> rel.joinCollection,
           localField |-> <<rel.localKey>>, foreignField |-> rel.localJoinKey,
           as |-> RelName],
          [op |-> "$unwind", path |-> RelName],
          [op |-> "$lookup", from |-> ChildCollection,
           localField |-> <<RelName, rel.foreignJoinKey>>,
           foreignField |-> rel.foreignKey, as |-> RelName],
          [op |-> "$unwind", path |-> RelName],
          [op |-> "$group", push |-> RelName,
           first |-> ProjectKeys(flds, force) \ {"_id"}] >>
  ELSE << [op |-> "$lookup", from |-> ChildCollection,
           localField |-> <<rel.localKey>>, foreignField |-> rel.foreignKey,
           as |-> RelName] >>

\* What the projection does with the relation value, by relation type.
RelationProjection(type) ==
  IF type \in {"belongsTo", "hasOne"} THEN "arrayElemAt0" ELSE "filterIfNull"

\* BaseModel.relationships: the pipeline for a criteria, the requested
\* relation names, the force-fetched fields and a pagination (NoPagination
\* for the default, an empty dict).
NoPagination == [sort |-> <<>>, page |-> 0, page_size |-> 0, given |-> FALSE]
Given(pagination) ==
  [sort |-> pagination.sort, page |-> pagination.page,
   page_size |-> pagination.page_size, given |-> TRUE]

relationships(sc, flds, criteria, key_array, force, pagination) ==
  LET paging == IF pagination.given
                THEN << SortStage(pagination.sort),
                        [op |-> "$skip", n |-> pagination.page_size * pagination.page],
                        [op |-> "$limit", n |-> pagination.page_size] >>
                ELSE <<>>
      wanted == RelName \in key_array
      project == [op |-> "$project", keys |-> ProjectKeys(flds, force),
                  rel |-> IF wanted THEN RelationProjection(sc.type) ELSE "none"]
  IN  <<MatchStage(criteria)>> \o paging
        \o (IF wanted THEN LookupStages(Relation(sc), flds, force) ELSE <<>>)
        \o <<project>>
        \o (IF pagination.given /\ pagination.sort # <<>>
            THEN <<SortStage(pagination.sort)>> ELSE <<>>)

\* list.append(stage)
InsertLast(ag, stage) == Append(ag, stage)

\* list.insert(1, stage)
Insert1(ag, stage) == <<ag[1], stage>> \o Tail(ag)

\* The pipeline as the store receives it: a stage that aliases the caller's
\* criteria dict shows the dict as it is when the pipeline is sent.
Sent(ag, criteria) ==
  [i \in 1..Len(ag) |->
     IF ag[i].op = "$match" /\ ag[i].alias
     THEN [op |-> "$match", q |-> criteria, alias |-> TRUE]
     ELSE ag[i]]

\* ----------------------------------------------- the store: aggregation
\* The value at a field path of a document; None when it is missing.
PathValue(doc, path) ==
  IF Len(path) = 1 THEN Get(doc, path[1])
  ELSE LET outer == Get(doc, path[1])
       IN  IF outer.t = "dict" THEN Get(outer.v, path[2]) ELSE None

\* Flattens a sequence of sequences.
RECURSIVE Flatten(_)
Flatten(seqs) == IF seqs = <<>> THEN <<>> ELSE Head(seqs) \o Flatten(Tail(seqs))

\* $lookup: the documents of `from` whose foreignField equals the document's
\* localField (a missing field counts as null on both sides), as a list.
LookupOne(store, st, doc) ==
  LET local == PathValue(doc, st.localField)
      found == SelectSeq(NaturalOrder(store[st.from]),
                         LAMBDA f : Get(f, st.foreignField) = local)
  IN  Put(doc, st.as, List([i \in 1..Len(found) |-> Dict(found[i])]))

\* $unwind with preserveNullAndEmptyArrays: one document per element; a
\* document whose array is missing, null or empty is kept, without the field.
UnwindOne(st, doc) ==
  LET x == Get(doc, st.path)
  IN  IF x.t = "list" /\ x.v # <<>>
      THEN [i \in 1..Len(x.v) |-> Put(doc, st.path, x.v[i])]
      ELSE <<Del(doc, st.path)>>

\* The identifiers of a sequence of documents, in order of first appearance.
RECURSIVE GroupIds(_)
GroupIds(docs) ==
  IF docs = <<>> THEN <<>>
  ELSE LET before == GroupIds(SubSeq(docs, 1, Len(docs) - 1))
           id == Get(docs[Len(docs)], "_id")
       IN  IF \E i \in 1..Len(before) : before[i] = id THEN before
           ELSE Append(before, id)

\* $group by _id: $push collects the field's values (a document without the
\* field adds nothing), $first takes the first document's value (null when
\* it has none).
GroupStage(st, docs) ==
  LET ids == GroupIds(docs)
      members(id) == SelectSeq(docs, LAMBDA x : Get(x, "_id") = id)
      pushed(id) == LET has == SelectSeq(members(id), LAMBDA x : st.push \in DOMAIN x)
                    IN  [i \in 1..Len(has) |-> has[i][st.push]]
  IN  [i \in 1..Len(ids) |->
        [k \in {"_id", st.push} \cup st.first |->
           IF k = "_id" THEN ids[i]
           ELSE IF k = st.push THEN List(pushed(ids[i]))
           ELSE Get(members(ids[i])[1], k)]]

\* {"$ifNull": [x, True]} as a condition: x when it is not null, else True.
IfNullTrue(x) == IF x = None THEN Bool(TRUE) ELSE x

\* The truth value the store gives to the outcome of a condition: null, false
\* and zero are false, every other value (a date, a string, an array) is true.
CoerceToBool(x) ==
  CASE x.t = "none" -> FALSE
    [] x.t = "bool" -> x.v
    [] x.t = "int" -> x.v # 0
    [] OTHER -> TRUE

\* The condition of the $filter of a list-shaped relation on one element:
\* {"$ifNull": ["$$items.deleted_at", True]}.
FilterCond(e) == CoerceToBool(IfNullTrue(Get(e, "deleted_at")))

\* $project: the listed fields that the document has, and the relation value
\* reshaped: its first element, or its elements that pass the $filter whose
\* condition is {"$ifNull": ["$$items.deleted_at", True]}.
ProjectOne(st, doc) ==
  LET own == Restrict(doc, st.keys \cup {"_id"})
      x == Get(doc, RelName)
  IN  IF st.rel = "none" \/ x.t # "list" THEN own
      ELSE IF st.rel = "arrayElemAt0"
      THEN IF x.v = <<>> THEN own ELSE Put(own, RelName, x.v[1])
      ELSE Put(own, RelName,
               List(SelectSeq(x.v, LAMBDA e : FilterCond(e.v))))

MinOf(a, b) == IF a < b THEN a ELSE b

\* One stage applied to the documents that reach it.
RunStage(store, st, docs) ==
  CASE st.op = "$match" -> SelectSeq(docs, LAMBDA x : Matches(x, st.q))
    [] st.op = "$sort" -> SortDocs(docs, st.by)
    [] st.op = "$skip" -> SubSeq(docs, st.n + 1, Len(docs))
    [] st.op = "$limit" -> SubSeq(docs, 1, MinOf(st.n, Len(docs)))
    [] st.op = "$lookup" -> [i \in 1..Len(docs) |-> LookupOne(store, st, docs[i])]
    [] st.op = "$unwind" ->
         Flatten([i \in 1..Len(docs) |-> UnwindOne(st, docs[i])])
    [] st.op = "$group" -> GroupStage(st, docs)
    [] st.op = "$project" -> [i \in 1..Len(docs) |-> ProjectOne(st, docs[i])]

\* collection.aggregate(pipeline): the stages in order on the collection.
RECURSIVE RunFrom(_, _, _)
RunFrom(store, ag, docs) ==
  IF ag = <<>> THEN docs
  ELSE RunFrom(store, Tail(ag), RunStage(store, Head(ag), docs))

Aggregate(store, coll, ag) == RunFrom(store, ag, NaturalOrder(store[coll]))

\* collection.find(criteria, sort=...)
StoreFind(store, coll, criteria, by) ==
  SortDocs(SelectSeq(NaturalOrder(store[coll]), LAMBDA x : Matches(x, criteria)), by)

\* collection.count(criteria) and collection.find(criteria).count()
StoreCount(store, coll, criteria) ==
  Cardinality({x \in store[coll] : Matches(x, criteria)})

\* ------------------------------------------------------ the store: writes
\* The document of a collection with an identifier, as a set (empty if none).
ById(store, coll, id) == {x \in store[coll] : Get(x, "_id") = id}

\* collection.insert(doc)
StoreInsert(store, coll, doc) == [store EXCEPT ![coll] = @ \cup {doc}]

\* collection.save(doc) of a document with an identifier: replaces the stored
\* document of that identifier, or inserts.
StoreReplace(store, coll, doc) ==
  [store EXCEPT ![coll] = (@ \ ById(store, coll, doc["_id"])) \cup {doc}]

\* update({"_id": id}, {"$set": set}): the fields of `set` are written into the
\* document of that identifier; with upsert, a missing document is created.
StoreUpdate(store, coll, id, set, upsert) ==
  LET old == ById(store, coll, id)
      merged(x) == [k \in DOMAIN x \cup DOMAIN set |->
                      IF k \in DOMAIN set THEN set[k] ELSE x[k]]
  IN  IF old # {}
      THEN [store EXCEPT ![coll] = (@ \ old) \cup {merged(x) : x \in old}]
      ELSE IF upsert
      THEN [store EXCEPT ![coll] = @ \cup {Put(set, "_id", id)}]
      ELSE store

\* remove({"_id": id})
StoreRemove(store, coll, id) ==
  [store EXCEPT ![coll] = @ \ ById(store, coll, id)]

\* One operation of an ordered bulk.
BulkApply(store, coll, op) ==
  CASE op.kind = "insert" -> StoreInsert(store, coll, op.doc)
    [] op.kind = "upsert" -> StoreUpdate(store, coll, op.id, op.set, TRUE)
    [] op.kind = "removeWhere" ->
         [store EXCEPT ![coll] = {x \in @ : Get(x, op.key) # op.val}]
    [] op.kind = "upsertRow" ->
         [store EXCEPT ![coll] = @ \cup {op.row}]

\* bulk.execute(): the operations in order.
RECURSIVE BulkExecute(_, _, _)
BulkExecute(store, coll, ops) ==
  IF ops = <<>> THEN store
  ELSE BulkExecute(BulkApply(store, coll, Head(ops)), coll, Tail(ops))

\* -------------------------------------------------------- find, count, paged
Return(v) == [kind |-> "return", v |-> v]
Raise(e) == [kind |-> "raise", err |-> e]

\* criteria["deleted_at"] = {"$exists": False}
NotDeleted(criteria) ==
  Put(criteria, "deleted_at", Dict([x \in {"$exists"} |-> Bool(FALSE)]))

\* [self.dict_rep(doc) for doc in cursor]: the first failure ends the loop.
DictRepCons(h, r) ==
  IF ~h.ok THEN h
  ELSE IF ~r.ok THEN r
  ELSE Ok(<<h.val>> \o r.val)

RECURSIVE DictRepAll(_, _, _)
DictRepAll(flds, relType, docs) ==
  IF docs = <<>> THEN Ok(<<>>)
  ELSE DictRepCons(dict_rep(flds, relType, Head(docs)),
                   DictRepAll(flds, relType, Tail(docs)))

\* The redaction of the relation value of one result record.
CleanRelation(result, force) ==
  IF Get(result, RelName) # None
  THEN Put(result, RelName, CleanChildValue(result[RelName], force))
  ELSE result

\* The loop of find over the results: its body returns in its first
\* iteration, after redacting the protected fields of every result and the
\* relation value of the first result.
FindClean(results, force) ==
  LET top == [i \in 1..Len(results) |->
                CleanRecord(ParentProtected, results[i], force)]
  IN  [i \in 1..Len(top) |-> IF i = 1 THEN CleanRelation(top[i], force) ELSE top[i]]

\* The loop of paged over the results: every iteration redacts the protected
\* fields of every result and the relation value of its own.
PagedClean(results, force) ==
  [i \in 1..Len(results) |->
     CleanRelation(CleanRecord(ParentProtected, results[i], force), force)]

AsValue(results) == List([i \in 1..Len(results) |-> Dict(results[i])])

\* An end of find that fetches the related records of every result with a
\* query of its own.
FindReturnPerRecord(results, single, trip) ==
  [ret |-> IF results = <<>> THEN Return(None)
           ELSE IF single THEN Return(Dict(results[1]))
           ELSE Return(AsValue(results)),
   trips |-> <<trip>> \o [i \in 1..Len(results) |->
                            [op |-> "find", coll |-> ChildCollection,
                             q |-> [order_id |-> results[i]["_id"]]]]]

\* The end of find: an empty result list leaves the loop without a return
\* statement, so the call returns None.
FindReturn(results, single, trip) ==
  IF results = <<>> THEN [ret |-> Return(None), trips |-> <<trip>>]
  ELSE IF single THEN [ret |-> Return(Dict(results[1])), trips |-> <<trip>>]
  ELSE [ret |-> Return(AsValue(results)), trips |-> <<trip>>]

\* find from the wire representations of the documents the cursor gave.
FindReps(reps, single, force, trip) ==
  IF ~reps.ok THEN [ret |-> Raise(reps.err), trips |-> <<trip>>]
  ELSE FindReturn(FindClean(reps.val, force), single, trip)

\* The aggregate branch of find: the pipeline is sent to the store.
FindSent(store, ag) ==
  [docs |-> Aggregate(store, ParentCollection, ag),
   trip |-> [op |-> "aggregate", coll |-> ParentCollection, ag |-> ag]]

\* The round trip of find: an aggregation when relations are requested (the
\* sort is inserted after the first stage), else a find with the sort.
FindFetch(sc, flds, store, params, relations, force, criteria) ==
  IF relations # {}
  THEN FindSent(store,
                Sent(Insert1(relationships(sc, flds, criteria, relations, force,
                                           NoPagination),
                             SortStage(sort_query(params))),
                     criteria))
  ELSE [docs |-> StoreFind(store, ParentCollection, criteria, sort_query(params)),
        trip |-> [op |-> "find", coll |-> ParentCollection, q |-> criteria]]

FindFetched(sc, flds, fetched, single, force) ==
  FindReps(DictRepAll(flds, sc.type, fetched.docs), single, force, fetched.trip)

\* find from the outcome of filter(params).
FindFiltered(sc, flds, store, params, single, relations, force, crit) ==
  IF ~crit.ok THEN [ret |-> Raise(crit.err), trips |-> <<>>]
  ELSE FindFetched(sc, flds,
                   FindFetch(sc, flds, store, params, relations, force,
                             NotDeleted(crit.val)),
                   single, force)

\* BaseModel.find.  The outcome and the store round trips.
find(sc, flds0, store, params, single, relations, force) ==
  FindFiltered(sc, WithTimestamps(flds0), store, params, single, relations, force,
               filter(flds0, params))

\* count on the criteria with deleted_at stored in them.
CountCriteria(store, criteria) ==
  [ret |-> Return(IntV(StoreCount(store, ParentCollection, criteria))),
   trips |-> <<[op |-> "count", coll |-> ParentCollection, q |-> criteria]>>]

\* count from the outcome of filter(params).
CountFiltered(store, crit) ==
  IF ~crit.ok THEN [ret |-> Raise(crit.err), trips |-> <<>>]
  ELSE CountCriteria(store, NotDeleted(crit.val))

\* BaseModel.count
count(flds0, store, params) == CountFiltered(store, filter(flds0, params))

\* The dict that paged returns.
PagedReturn(results, n, pg, trip) ==
  [ret |-> Return(Dict([k \in {"results", "count", "page", "page_size"} |->
             CASE k = "results" -> AsValue(results)
               [] k = "count" -> IntV(n)
               [] k = "page" -> IntV(pg.page)
               [] k = "page_size" -> IntV(pg.page_size)])),
   trips |-> trip]

\* paged from the wire representations of the documents the cursor gave.
PagedReps(reps, force, n, pg, trip) ==
  IF ~reps.ok THEN [ret |-> Raise(reps.err), trips |-> trip]
  ELSE PagedReturn(PagedClean(reps.val, force), n, pg, trip)

\* The round trips of paged: the aggregation, then the count.
PagedSent(sc, flds, store, force, pg, criteria, ag) ==
  PagedReps(DictRepAll(flds, sc.type, Aggregate(store, ParentCollection, ag)),
            force, StoreCount(store, ParentCollection, criteria), pg,
            <<[op |-> "aggregate", coll |-> ParentCollection, ag |-> ag],
              [op |-> "count", coll |-> ParentCollection, q |-> criteria]>>)

\* paged once deleted_at is stored in criteria: the pipeline built before is
\* sent now.
PagedCriteria(sc, flds, store, force, pg, built, criteria) ==
  PagedSent(sc, flds, store, force, pg, criteria, Sent(built, criteria))

\* paged from the outcome of filter(params): the pipeline is built from
\* criteria before deleted_at is stored in it.
PagedFiltered(sc, flds, store, relations, force, pg, crit) ==
  IF ~crit.ok THEN [ret |-> Raise(crit.err), trips |-> <<>>]
  ELSE PagedCriteria(sc, flds, store, force, pg,
                     relationships(sc, flds, crit.val, relations, force, pg),
                     NotDeleted(crit.val))

\* BaseModel.paged
paged(sc, flds0, store, params, pagination, relations, force) ==
  PagedFiltered(sc, WithTimestamps(flds0), store, relations, force,
                Given(paginate(pagination)), filter(flds0, params))

\* ------------------------------------------------------------------ remove
\* A policy check that lets every operation cascade.
check_always(cascade, cascade_policy) == TRUE

\* BaseModel.check_cascade_policy
check_cascade_policy(cascade, cascade_policy) == cascade \cap cascade_policy # {}

\* The cascade of remove onto one related record (a wire record of the cache):
\* a hard delete, or, when the relation declares softDeletes, an update whose
\* $set document is self.preparse_fields(item), coerced with the registry of
\* the kind under test, plus deleted_at and minus _id.
RemoveRelated(store, rel, flds, item, t) ==
  LET id == ParseOid(Get(item, "_id")).val
      cache_rel == preparse_fields(flds, item).val
  IN  IF ~rel.softDeletes
      THEN [store |-> StoreRemove(store, ChildCollection, id),
            trip |-> [op |-> "remove", coll |-> ChildCollection, id |-> id]]
      ELSE [store |-> StoreUpdate(store, ChildCollection, id,
                                  Del(Put(cache_rel, "deleted_at", Date(t)), "_id"),
                                  FALSE),
            trip |-> [op |-> "update", coll |-> ChildCollection, id |-> id]]

RECURSIVE RemoveRelatedAll(_, _, _, _, _)
RemoveRelatedAll(store, rel, flds, items, t) ==
  IF items = <<>> THEN [store |-> store, trips |-> <<>>]
  ELSE LET one == RemoveRelated(store, rel, flds, Head(items).v, t)
           rest == RemoveRelatedAll(one.store, rel, flds, Tail(items), t)
       IN  [store |-> rest.store, trips |-> <<one.trip>> \o rest.trips]

\* The first part of remove: the cascade onto the relations whose cascade set
\* holds DELETE.  cache is the result of self.first({"_id": _id}, related).
RemoveCascade(sc, flds, store, cache, t) ==
  LET rel == Relation(sc)
      value == Get(cache, RelName)
  IN  IF ~Truthy(value) THEN [store |-> store, trips |-> <<>>]
      ELSE IF rel.type \in {"hasMany", "belongsToMany"}
      THEN RemoveRelatedAll(store, rel, flds, value.v, t)
      ELSE IF rel.type = "manyToMany"
      THEN LET id == ParseOid(cache["_id"]).val
           IN  [store |-> [store EXCEPT ![rel.joinCollection] =
                             {x \in @ : Get(x, rel.localJoinKey) # id}],
                trips |-> <<[op |-> "remove", coll |-> rel.joinCollection, id |-> id]>>]
      ELSE LET one == RemoveRelated(store, rel, flds, value.v, t)
           IN  [store |-> one.store, trips |-> <<one.trip>>]

\* The hard delete of remove, on the kind's own collection.
HardDelete(store, id) ==
  IF ~id.ok THEN [store |-> store, ret |-> Raise(id.err), trips |-> <<>>]
  ELSE [store |-> StoreRemove(store, ParentCollection, id.val),
        ret |-> Return(Dict([k \in {"n"} |->
                  IntV(Cardinality(ById(store, ParentCollection, id.val)))])),
        trips |-> <<[op |-> "remove", coll |-> ParentCollection, id |-> id.val]>>]

\* The soft delete of remove from the coerced record: it is stamped with
\* deleted_at and written back with $set, without its identifier.
SoftDeleteParsed(store, id, t, sofar, cache_rel) ==
  IF ~cache_rel.ok
  THEN [store |-> store, ret |-> Raise(cache_rel.err), trips |-> sofar]
  ELSE [store |-> StoreUpdate(store, ParentCollection, id,
                    Del(Put(cache_rel.val, "deleted_at", Date(t)), "_id"),
                    FALSE),
        ret |-> Return(Dict([k \in {"n"} |-> IntV(1)])),
        trips |-> Append(sofar,
                    [op |-> "update", coll |-> ParentCollection, id |-> id])]

\* The soft delete of remove from the outcome of self.first({"_id": _id}, []):
\* a record that is not found makes first return None, and
\* preparse_fields(None) fails on None.get (AttributeError).
SoftDeleteFound(flds, store, _id, t, found) ==
  IF found.ret.kind = "raise"
  THEN [store |-> store, ret |-> found.ret, trips |-> found.trips]
  ELSE IF found.ret.v = None
  THEN [store |-> store, ret |-> Raise("AttributeError"), trips |-> found.trips]
  ELSE SoftDeleteParsed(store, ParseOid(_id).val, t, found.trips,
                        preparse_fields(WithTimestamps(flds), found.ret.v.v))

\* The second part of remove, on the kind's own collection: a hard delete
\* when the kind has no soft delete or force is given, else a soft delete.
RemoveOwn(sc, flds, store, _id, force, t) ==
  IF ~sc.softDeletes \/ force
  THEN HardDelete(store, ParseOid(_id))
  ELSE SoftDeleteFound(flds, store, _id, t,
                       find(sc, flds, store, [k \in {"_id"} |-> _id], TRUE, {}, {}))

\* The outcome of remove after its cascade.
RemoveJoin(sofar, own) ==
  [store |-> own.store, ret |-> own.ret, trips |-> sofar \o own.trips]

RemoveCascaded(sc, flds, _id, force, t, sofar, cascade) ==
  RemoveJoin(sofar \o cascade.trips,
             RemoveOwn(sc, flds, cascade.store, _id, force, t))

\* remove from the outcome of self.first({"_id": _id}, related_models): a
\* record that is not found makes first return None, and cache.get fails on
\* it (AttributeError).
RemoveFirst(sc, flds, store, _id, force, t, first) ==
  IF first.ret.kind = "raise"
  THEN [store |-> store, ret |-> first.ret, trips |-> first.trips]
  ELSE IF first.ret.v = None
  THEN [store |-> store, ret |-> Raise("AttributeError"), trips |-> first.trips]
  ELSE RemoveCascaded(sc, flds, _id, force, t, first.trips,
                      RemoveCascade(sc, WithTimestamps(flds), store,
                                    first.ret.v.v, t))

\* BaseModel.remove
remove(sc, flds, store, _id, force, t) ==
  IF ~check_cascade_policy(sc.cascade, {"DELETE"})
  THEN RemoveOwn(sc, flds, store, _id, force, t)
  ELSE RemoveFirst(sc, flds, store, _id, force, t,
                   find(sc, flds, store, [k \in {"_id"} |-> _id], TRUE,
                        {RelName}, {}))

\* --------------------------------------------------------- save_collection
\* The loop over the nested items of a list-shaped input (not manyToMany):
\* each item gets the parent's local key as its foreign key; an item with an
\* identifier becomes an upsert by identifier, an item without one an insert
\* (the driver gives it its identifier when it is added to the bulk).
RECURSIVE ItemOps(_, _, _, _, _)
ItemOps(rel, items, fk, nid, t) ==
  IF items = <<>> THEN Ok([ops |-> <<>>, upserted |-> <<>>, nid |-> nid])
  ELSE LET item == Put(Head(items).v, rel.foreignKey, fk)
           id == ParseOid(item["_id"])
           op == IF Truthy(Get(item, "_id"))
                 THEN [kind |-> "upsert", id |-> id.val,
                       set |-> Del(Put(item, "updated_at", Date(t)), "_id")]
                 ELSE [kind |-> "insert",
                       doc |-> Put(Put(Put(item, "updated_at", Date(t)),
                                       "created_at", Date(t)),
                                   "_id", Oid(nid))]
           rest == ItemOps(rel, Tail(items), fk,
                           IF op.kind = "insert" THEN nid + 1 ELSE nid, t)
       IN  IF Truthy(Get(item, "_id")) /\ ~id.ok THEN Err(id.err)
           ELSE IF ~rest.ok THEN rest
           ELSE Ok([ops |-> <<op>> \o rest.val.ops,
                    upserted |-> (IF op.kind = "upsert" THEN <<op.id>> ELSE <<>>)
                                   \o rest.val.upserted,
                    nid |-> rest.val.nid])

\* The branch for a single nested record (a dict): as above, but the foreign
\* key is not set.
SingleOps(item, nid, t) ==
  LET id == ParseOid(item["_id"])
  IN  IF Truthy(Get(item, "_id"))
      THEN IF ~id.ok THEN Err(id.err)
           ELSE Ok([ops |-> <<[kind |-> "upsert", id |-> id.val,
                               set |-> Del(Put(item, "updated_at", Date(t)), "_id")]>>,
                    upserted |-> <<id.val>>, nid |-> nid])
      ELSE Ok([ops |-> <<[kind |-> "insert",
                          doc |-> Put(Put(Put(item, "created_at", Date(t)),
                                          "updated_at", Date(t)),
                                      "_id", Oid(nid))]>>,
               upserted |-> <<>>, nid |-> nid + 1])

\* The rows of the join collection to upsert for the nested items of a
\* manyToMany relation; item[foreignKey] must be there and parse.
RECURSIVE JoinOps(_, _, _)
JoinOps(rel, items, parentId) ==
  IF items = <<>> THEN Ok(<<>>)
  ELSE LET item == Head(items).v
           id == ParseOid(item[rel.foreignKey])
           rest == JoinOps(rel, Tail(items), parentId)
       IN  IF rel.foreignKey \notin DOMAIN item THEN Err("KeyError")
           ELSE IF ~id.ok THEN Err(id.err)
           ELSE IF ~rest.ok THEN rest
           ELSE Ok(<<[kind |-> "upsertRow",
                      row |-> [k \in {rel.localJoinKey, rel.foreignJoinKey} |->
                                 IF k = rel.localJoinKey THEN parentId ELSE id.val]]>>
                   \o rest.val)

\* One bulk.execute() inside try/except: an empty bulk raises in the driver
\* (no round trip), a failing one at the store; both are caught and leave the
\* variable `result` as it was.
Execute(store, coll, ops, fails) ==
  IF ops = <<>> THEN [store |-> store, trips |-> <<>>, bound |-> FALSE]
  ELSE IF fails
  THEN [store |-> store, trips |-> <<[op |-> "bulk", coll |-> coll, ok |-> FALSE]>>,
        bound |-> FALSE]
  ELSE [store |-> BulkExecute(store, coll, ops),
        trips |-> <<[op |-> "bulk", coll |-> coll, ok |-> TRUE]>>, bound |-> TRUE]

\* The end of save_collection: result["upserted"] needs `result` to be bound
\* by a bulk that succeeded; the records upserted by identifier are fetched
\* and attached; len(fetched) on the cursor fails for belongsTo.
Attach(rel, store, sofar, bound, upserted, result_model, nid) ==
  LET wololo == SelectSeq(NaturalOrder(store[ChildCollection]),
                  LAMBDA x : \E i \in 1..Len(upserted) : Get(x, "_id") = upserted[i])
      fetch == [op |-> "find", coll |-> ChildCollection, q |-> upserted]
  IN  IF ~bound
      THEN [store |-> store, nextId |-> nid, trips |-> sofar,
            out |-> Err("UnboundLocalError")]
      ELSE IF rel.type = "belongsTo"
      THEN [store |-> store, nextId |-> nid, trips |-> Append(sofar, fetch),
            out |-> Err("TypeError")]
      ELSE [store |-> store, nextId |-> nid, trips |-> Append(sofar, fetch),
            out |-> Ok(Put(result_model, RelName,
                           List([i \in 1..Len(wololo) |-> Dict(wololo[i])])))]

\* BaseModel.save_collection.  fail names the bulks that fail at the store.
save_collection(sc, store, nid, model, result_model, t, fail) ==
  LET rel == Relation(sc)
      value == model[RelName]
      raised(e) == [store |-> store, nextId |-> nid, trips |-> <<>>, out |-> Err(e)]
  IN
  IF value.t = "list" /\ rel.type # "manyToMany"
  THEN LET built == ItemOps(rel, value.v, result_model[rel.localKey], nid, t)
           done == Execute(store, ChildCollection, built.val.ops, "bulk" \in fail)
       IN  IF ~built.ok THEN raised(built.err)
           ELSE Attach(rel, done.store, done.trips, done.bound,
                       built.val.upserted, result_model, built.val.nid)
  ELSE IF value.t = "list"
  THEN LET parentId == result_model[rel.localKey]
           deleted == Execute(store, rel.joinCollection,
                              <<[kind |-> "removeWhere", key |-> rel.localJoinKey,
                                 val |-> parentId]>>, "delete" \in fail)
           rows == JoinOps(rel, value.v, parentId)
           inserted == Execute(deleted.store, rel.joinCollection, rows.val,
                               "insert" \in fail)
       IN  IF ~rows.ok
           THEN [store |-> deleted.store, nextId |-> nid, trips |-> deleted.trips,
                 out |-> Err(rows.err)]
           ELSE Attach(rel, inserted.store, deleted.trips \o inserted.trips,
                       deleted.bound \/ inserted.bound, <<>>, result_model, nid)
  ELSE IF value.t = "dict"
  THEN LET built == SingleOps(value.v, nid, t)
           done == Execute(store, ChildCollection, built.val.ops, "bulk" \in fail)
       IN  IF ~built.ok THEN raised(built.err)
           ELSE Attach(rel, done.store, done.trips, done.bound,
                       built.val.upserted, result_model, built.val.nid)
  ELSE Attach(rel, store, <<>>, FALSE, <<>>, result_model, nid)

\* -------------------------------------------------------------------- save
\* to_save as it is written: a record without identifier gets created_at and
\* updated_at (two readings of the clock) and the identifier the store gives
\* it, one with an identifier gets updated_at.
ToSave(pre, nid, t1, t2) ==
  IF Get(pre, "_id") = None
  THEN Put(Put(Put(pre, "created_at", Date(t1)), "updated_at", Date(t2)),
           "_id", Oid(nid))
  ELSE Put(pre, "updated_at", Date(t1))

\* collection.save(to_save): an insert, or the replacement of the stored
\* document with that identifier.
SaveStored(store, to_save, create) ==
  IF create THEN StoreInsert(store, ParentCollection, to_save)
  ELSE StoreReplace(store, ParentCollection, to_save)

\* return self.dict_rep(to_save)
SaveReturn(after, nid, sent, rep) ==
  [store |-> after, nextId |-> nid,
   ret |-> IF rep.ok THEN Return(Dict(rep.val)) ELSE Raise(rep.err),
   trips |-> sent, mutated |-> TRUE]

\* save after save_collection.
SaveCascaded(sc, flds, trip, coll) ==
  IF ~coll.out.ok
  THEN [store |-> coll.store, nextId |-> coll.nextId, ret |-> Raise(coll.out.err),
        trips |-> <<trip>> \o coll.trips, mutated |-> FALSE]
  ELSE SaveReturn(coll.store, coll.nextId, <<trip>> \o coll.trips,
                  dict_rep(flds, sc.type, coll.out.val))

\* save after the record is written: the cascade onto the relation when the
\* record carries it and the policy (UPDATE for a record given with an
\* identifier, else CREATE) is in the relation's cascade set.
SaveWritten(sc, flds, written, nid, bus_object, to_save, t, fail, trip) ==
  IF /\ RelName \in DOMAIN bus_object
     /\ check_cascade_policy(sc.cascade,
                             IF Truthy(Get(bus_object, "_id"))
                             THEN {"UPDATE"} ELSE {"CREATE"})
  THEN SaveCascaded(sc, flds, trip,
                    save_collection(sc, written, nid, bus_object, to_save, t, fail))
  ELSE SaveReturn(written, nid, <<trip>>, dict_rep(flds, sc.type, to_save))

SaveToSave(sc, flds, store, nid, bus_object, t, fail, create, to_save) ==
  SaveWritten(sc, flds, SaveStored(store, to_save, create),
              IF create THEN nid + 1 ELSE nid, bus_object, to_save, t, fail,
              [op |-> "save", coll |-> ParentCollection, id |-> to_save["_id"]])

\* save from the outcome of preparse_fields(bus_object).
SaveParsed(sc, flds, store, nid, bus_object, t1, t2, fail, pre) ==
  IF ~pre.ok
  THEN [store |-> store, nextId |-> nid, ret |-> Raise(pre.err), trips |-> <<>>,
        mutated |-> FALSE]
  ELSE SaveToSave(sc, flds, store, nid, bus_object, t2, fail,
                  Get(pre.val, "_id") = None, ToSave(pre.val, nid, t1, t2))

\* BaseModel.save.  t1 and t2 are the first and the later readings of the
\* clock during the call.
save(sc, flds, store, nid, bus_object, t1, t2, fail) ==
  SaveParsed(sc, flds, store, nid, bus_object, t1, t2, fail,
             preparse_fields(flds, bus_object))

\* ------------------------------------------------------------- the inputs
\* The schemas the model is run with.
Schema(type, cascade, soft, relSoft) ==
  [type |-> type, cascade |-> cascade, softDeletes |-> soft, relSoftDeletes |-> relSoft]
Schemas ==
  { Schema("hasMany", {}, FALSE, FALSE),
    Schema("hasMany", {"CREATE", "UPDATE", "DELETE"}, TRUE, TRUE),
    Schema("belongsToMany", {"CREATE"}, TRUE, FALSE),
    Schema("manyToMany", {"CREATE", "UPDATE", "DELETE"}, TRUE, FALSE),
    Schema("hasOne", {"CREATE", "UPDATE", "DELETE"}, TRUE, FALSE) }

Malformed == S("zz")
ItemA == Dict([sku |-> S("A1"), secret |-> S("s3")])
\* An item with a field its kind does not declare.
ItemB == Dict([sku |-> S("B2"), colour |-> S("red")])

\* The records given to save.
BusObjects ==
  { [name |-> S("Ann"), password |-> S("pw")],
    [name |-> S("Ann"), password |-> S("pw"), items |-> List(<<ItemA>>)],
    [name |-> S("Bob"), items |-> List(<<ItemA, ItemB>>)],
    [name |-> S("Bob"), items |-> List(<<>>)],
    [name |-> S("Ann"), items |-> ItemA],
    [_id |-> S("id1"), name |-> S("Bob"),
     items |-> List(<<Dict([_id |-> S("id2"), sku |-> S("B2")])>>)],
    [_id |-> Malformed, name |-> S("Ann")],
    [_id |-> S(""), name |-> S("Ann")],
    [name |-> S("Ann"), items |-> List(<<Dict([_id |-> Malformed, sku |-> S("A1")])>>)] }

\* The bulks of a save that fail at the store.
FailChoices == {{}, {"bulk"}, {"insert"}, {"delete", "insert"}}

\* The identifiers given to remove and to find.
IdInputs == {S("id1"), Malformed}

Exists(b) == Dict([x \in {"$exists"} |-> Bool(b)])
\* The parameter maps given to find, count and paged.
ParamInputs ==
  { EmptyMap,
    [name |-> S("ann")],
    [deleted_at |-> Exists(TRUE)],
    [created_at |-> S("garbage")],
    [x \in {"$or"} |-> List(<<Dict([deleted_at |-> Exists(TRUE)])>>)] }
    \cup { [_id |-> id] : id \in IdInputs }

\* The pagination maps given to paged.
PaginationInputs ==
  { EmptyMap,
    [page |-> IntV(1), page_size |-> IntV(1)],
    [page |-> S("0"), page_size |-> S("2")],
    [page_size |-> IntV(1), sort_desc |-> S("_id")] }

RelationInputs == {{}, {RelName}}
ForceInputs == {{}, {"password", "secret"}}
\* (relations, force_fetch_protected_fields) as given to find and paged.
\* A second requested name is one the model does not declare: the loop of
\* relationships over self.relations passes it by.
OtherName == "notes"
FetchInputs ==
  { <<{}, {}>>, <<{RelName}, {}>>, <<{RelName}, {"password", "secret"}>>,
    <<{RelName, OtherName}, {}>> }

\* The identifiers a record given to save mentions.
MentionedIds(bus_object) ==
  {Get(bus_object, "_id")}
    \cup (IF Get(bus_object, RelName).t = "list"
          THEN {Get(bus_object[RelName].v[i].v, "_id") :
                  i \in 1..Len(bus_object[RelName].v)}
          ELSE {})

\* ------------------------------------------------------------ the actions
\* A call is made when no call is in progress, and its outcome stays in
\* call, ret and trips until the caller has taken it (Taken).
NoCall == [op |-> "none"]

Init ==
  /\ schema \in Schemas
  /\ fields = ParentDeclared
  /\ db = [c \in {ParentCollection, ChildCollection, JoinCollection} |-> {}]
  /\ nextId = 1
  /\ now = 0
  /\ call = NoCall
  /\ ret = Return(None)
  /\ trips = <<>>

Find ==
  /\ call = NoCall
  /\ \E params \in ParamInputs, single \in BOOLEAN, fetch \in FetchInputs :
       /\ single => fetch = <<{}, {}>> /\ params \in {EmptyMap, [_id |-> S("id1")]}
       /\ fetch # <<{}, {}>> =>
            params \in {EmptyMap, [_id |-> S("id1")], [_id |-> Malformed]}
       /\ OtherName \in fetch[1] => params = EmptyMap
       /\ \E r \in {find(schema, fields, db, params, single, fetch[1], fetch[2])} :
            /\ call' = [op |-> "find", params |-> params, single |-> single,
                        relations |-> fetch[1], force |-> fetch[2]]
            /\ ret' = r.ret
            /\ trips' = r.trips
  /\ fields' = WithTimestamps(fields)
  /\ UNCHANGED <<schema, db, nextId, now>>

Count ==
  /\ call = NoCall
  /\ \E params \in {EmptyMap, [_id |-> Malformed]} :
       \E r \in {count(fields, db, params)} :
         /\ call' = [op |-> "count", params |-> params]
         /\ ret' = r.ret
         /\ trips' = r.trips
  /\ fields' = WithTimestamps(fields)
  /\ UNCHANGED <<schema, db, nextId, now>>

Paged ==
  /\ call = NoCall
  /\ \E params \in ParamInputs, pagination \in PaginationInputs, fetch \in FetchInputs :
       /\ \/ params = EmptyMap /\ fetch[2] = {}
          \/ params = EmptyMap /\ pagination = EmptyMap
          \/ /\ params \in {[_id |-> Malformed], [name |-> S("ann")]}
             /\ pagination = EmptyMap
             /\ fetch = <<{}, {}>>
       /\ OtherName \in fetch[1] => pagination = EmptyMap
       /\ \E r \in {paged(schema, fields, db, params, pagination, fetch[1], fetch[2])} :
            /\ call' = [op |-> "paged", params |-> params, pagination |-> pagination,
                        relations |-> fetch[1], force |-> fetch[2]]
            /\ ret' = r.ret
            /\ trips' = r.trips
  /\ fields' = WithTimestamps(fields)
  /\ UNCHANGED <<schema, db, nextId, now>>

\* remove reaches filter (through first) unless it takes the hard-delete path
\* with no DELETE cascade.
Remove ==
  /\ call = NoCall
  /\ \E _id \in IdInputs, force \in BOOLEAN :
      \E r \in {remove(schema, fields, db, _id, force, now)} :
        /\ r.store # db => now < MaxTime
        /\ call' = [op |-> "remove", _id |-> _id, force |-> force]
        /\ ret' = r.ret
        /\ trips' = r.trips
        /\ db' = r.store
        /\ fields' = IF \/ check_cascade_policy(schema.cascade, {"DELETE"})
                         \/ ~(~schema.softDeletes \/ force)
                      THEN WithTimestamps(fields) ELSE fields
        /\ now' = IF r.store # db THEN now + 1 ELSE now
  /\ UNCHANGED <<schema, nextId>>

\* save: the identifiers the record mentions are ones the store has handed
\* out, and the store has fresh ones left for the records the call creates.
Save ==
  /\ call = NoCall
  /\ UNCHANGED schema
  /\ \E bus_object \in BusObjects, skew \in 0..1, fail \in FailChoices :
    /\ skew = 1 => RelName \notin DOMAIN bus_object
    /\ Get(bus_object, RelName).t = "dict" => schema.type \notin ListKinds
    /\ fail # {} =>
         /\ RelName \in DOMAIN bus_object
         /\ schema.cascade # {}
         /\ (schema.type = "manyToMany") = ("bulk" \notin fail)
    /\ \A id \in MentionedIds(bus_object) :
         ParseOid(id).ok => ParseOid(id).val.v < nextId
    /\ \E r \in {save(schema, fields, db, nextId, bus_object, now, now + skew, fail)} :
           /\ r.store # db => now < MaxTime
           /\ r.nextId <= MaxId + 1
           /\ call' = [op |-> "save", bus_object |-> bus_object, fail |-> fail]
           /\ ret' = r.ret
           /\ trips' = r.trips
           /\ db' = r.store
           /\ nextId' = r.nextId
           /\ fields' = IF r.mutated THEN WithTimestamps(fields) ELSE fields
           /\ now' = IF r.store # db THEN now + 1 ELSE now

\* The caller takes the outcome of the call.
Taken ==
  /\ call # NoCall
  /\ call' = NoCall
  /\ ret' = Return(None)
  /\ trips' = <<>>
  /\ UNCHANGED <<schema, fields, db, nextId, now>>

Next == Find \/ Count \/ Paged \/ Remove \/ Save \/ Taken

Spec == Init /\ [][Next]_vars

\* ------------------------------------------------- filter() called directly
\* Values for the control keys a caller may leave in the parameter map.
ControlValues ==
  [sort |-> Dict([name |-> IntV(-1)]),
   sort_asc |-> S("name"),
   sort_desc |-> S("name"),
   page |-> IntV(1),
   page_size |-> IntV(2),
   relations |-> List(<<S(RelName)>>),
   text_fields |-> List(<<S("name")>>)]

OrOf(conds) == [x \in {"$or"} |-> List(conds)]
\* The field conditions and $or values of the parameter maps given to filter.
FilterBases ==
  { EmptyMap,
    [name |-> S("ann")],
    [_id |-> Malformed],
    OrOf(<<Dict([name |-> S("Ann")]), Dict([name |-> S("Bob")])>>),
    OrOf(<<>>),
    Put(OrOf(<<Dict([name |-> S("Ann")])>>), "name", S("ann")) }

\* The parameter maps given to filter: a base with any set of control keys.
FilterParamInputs ==
  { [k \in DOMAIN base \cup ks |->
       IF k \in DOMAIN base THEN base[k] ELSE ControlValues[k]] :
    base \in FilterBases, ks \in SUBSET DOMAIN ControlValues }

Filter ==
  /\ call = NoCall
  /\ \E params \in FilterParamInputs :
      \E q \in {filter(fields, params)} :
        /\ call' = [op |-> "filter", params |-> params]
        /\ ret' = IF q.ok THEN Return(Dict(q.val)) ELSE Raise(q.err)
        /\ trips' = <<>>
  /\ fields' = WithTimestamps(fields)
  /\ UNCHANGED <<schema, db, nextId, now>>

NextFilter == Filter \/ Taken

SpecFilter == Init /\ [][NextFilter]_vars

\* --------------------------------------------- sort_query() called directly
\* The values a caller gives for sort_asc and sort_desc, and for sort.
SortListValues == {S("name"), Str(<<"name", ",", "_id">>), S("_id")}
SortValues == {IntV(-1), S("1"), Dict([name |-> IntV(-1)])}
\* The parameter maps given to sort_query: each of the three keys absent or
\* present with one of its values.
SortParamInputs ==
  { [k \in ks |-> IF k = "sort_asc" THEN a ELSE IF k = "sort_desc" THEN d ELSE s] :
    ks \in SUBSET {"sort_asc", "sort_desc", "sort"},
    a \in SortListValues, d \in SortListValues, s \in SortValues }

SortQuery ==
  /\ call = NoCall
  /\ \E params \in SortParamInputs :
       /\ call' = [op |-> "sort_query", params |-> params]
       /\ ret' = Return(List(sort_query(params)))
       /\ trips' = <<>>
  /\ UNCHANGED <<schema, fields, db, nextId, now>>

NextSort == SortQuery \/ Taken

SpecSort == Init /\ [][NextSort]_vars

\* ------------------------------- filter() on the declared ObjectId field
In(ids) == Dict([x \in {"$in"} |-> List(ids)])
\* The values given for the declared ObjectId field "_id".
IdShapes ==
  { S("id1"), S("id2"), Malformed,
    Oid(1), Oid(2),
    In(<<S("id1")>>), In(<<S("id1"), S("id2")>>), In(<<Oid(1)>>),
    In(<<Malformed>>), In(<<S("id1"), Malformed>>), In(<<>>),
    Dict([x \in {"$ne"} |-> S("id1")]), Dict(EmptyMap), Exists(TRUE),
    IntV(1), List(<<S("id1")>>), Bool(TRUE), None }
\* The parameter maps given to filter: _id with one of the shapes, alone or
\* next to a condition on name.
IdParamInputs ==
  { Put(base, "_id", x) : base \in {EmptyMap, [name |-> S("ann")]}, x \in IdShapes }

FilterId ==
  /\ call = NoCall
  /\ \E params \in IdParamInputs :
      \E q \in {filter(fields, params)} :
        /\ call' = [op |-> "filter_id", params |-> params]
        /\ ret' = IF q.ok THEN Return(Dict(q.val)) ELSE Raise(q.err)
        /\ trips' = <<>>
  /\ fields' = WithTimestamps(fields)
  /\ UNCHANGED <<schema, db, nextId, now>>

NextFilterId == FilterId \/ Taken

SpecFilterId == Init /\ [][NextFilterId]_vars

\* ------------------------------ dict_rep(preparse_fields(...)) on one field
\* Identifier strings and date strings given on the wire.
IdStrings == {S("id1"), S("ID1"), S("id2"), S("ID2"), Malformed}
DateStrings ==
  { Str(<<SecStr(n)>> \o tail) :
    n \in 0..2, tail \in {<<>>, <<"Z">>, <<".500000">>, <<".500000", "Z">>} }
    \cup {S("garbage")}
\* The wire records: one field, or an identifier next to a timestamp.
RoundTripInputs ==
  { [_id |-> x] : x \in IdStrings }
    \cup { [f \in {k} |-> s] : k \in {"created_at", "updated_at"}, s \in DateStrings }
    \cup { [_id |-> x, created_at |-> s] : x \in {S("id1"), S("ID2")}, s \in DateStrings }

\* preparse_fields reads the registry as it is; dict_rep then adds the
\* timestamp fields to it.
RoundTripOf(flds, params) ==
  LET pre == preparse_fields(flds, params)
  IN  IF ~pre.ok THEN Raise(pre.err)
      ELSE LET rep == dict_rep(flds, schema.type, pre.val)
           IN  IF rep.ok THEN Return(Dict(rep.val)) ELSE Raise(rep.err)

RoundTrip ==
  /\ call = NoCall
  /\ \E params \in RoundTripInputs :
       /\ call' = [op |-> "round_trip", params |-> params, declared |-> fields]
       /\ ret' = RoundTripOf(fields, params)
       /\ trips' = <<>>
  /\ fields' = WithTimestamps(fields)
  /\ UNCHANGED <<schema, db, nextId, now>>

NextCoerce == RoundTrip \/ FilterId \/ Taken

SpecCoerce == Init /\ [][NextCoerce]_vars

\* ------------------------------------------------------------------ _split
\* The pieces of a string between the occurrences of a separator chunk, each
\* piece a sequence of chunks.
RECURSIVE Pieces(_, _)
Pieces(chunks, separator) ==
  IF chunks = <<>> THEN << <<>> >>
  ELSE IF Head(chunks) = separator THEN << <<>> >> \o Pieces(Tail(chunks), separator)
  ELSE LET rest == Pieces(Tail(chunks), separator)
       IN  << <<Head(chunks)>> \o Head(rest) >> \o Tail(rest)

\* str.strip(): without the whitespace at either end.
RECURSIVE Strip(_)
Strip(piece) ==
  IF piece = <<>> THEN <<>>
  ELSE IF Head(piece) = " " THEN Strip(Tail(piece))
  ELSE IF piece[Len(piece)] = " " THEN Strip(SubSeq(piece, 1, Len(piece) - 1))
  ELSE piece

\* The chunks of a piece as one string.
RECURSIVE Join(_)
Join(piece) == IF piece = <<>> THEN "" ELSE Head(piece) \o Join(Tail(piece))

\* _split(text, separator): the stripped pieces that are not empty, in order.
Split(text, separator) ==
  LET stripped == [i \in 1..Len(Pieces(text, separator)) |->
                     Strip(Pieces(text, separator)[i])]
      kept == SelectSeq(stripped, LAMBDA p : p # <<>>)
  IN  [i \in 1..Len(kept) |-> Join(kept[i])]

\* The texts given to _split and, as field lists, to sort_query: up to three
\* chunks.
SplitChunks == {"a", "b", ",", " ", "."}
SplitTexts ==
  {<<>>} \cup {<<a>> : a \in SplitChunks}
    \cup {<<a, b>> : a \in SplitChunks, b \in SplitChunks}
    \cup {<<a, b, c>> : a \in SplitChunks, b \in SplitChunks, c \in SplitChunks}
Separators == {",", ".", " "}

SplitCall ==
  /\ call = NoCall
  /\ \E text \in SplitTexts, separator \in Separators :
       /\ call' = [op |-> "_split", text |-> text, separator |-> separator]
       /\ ret' = Return(List(Split(text, separator)))
       /\ trips' = <<>>
  /\ UNCHANGED <<schema, fields, db, nextId, now>>

\* sort_query on a field list under sort_asc or sort_desc.
SortFieldInputs ==
  { [k \in {key} |-> Str(text)] :
    key \in {"sort_asc", "sort_desc"}, text \in {x \in SplitTexts : Truthy(Str(x))} }

SortFields ==
  /\ call = NoCall
  /\ \E params \in SortFieldInputs :
       /\ call' = [op |-> "sort_query", params |-> params]
       /\ ret' = Return(List(sort_query(params)))
       /\ trips' = <<>>
  /\ UNCHANGED <<schema, fields, db, nextId, now>>

NextSplit == SortFields \/ SplitCall \/ Taken

SpecSplit == Init /\ [][NextSplit]_vars

\* ------------------------------------------------------------ the claims
\* The records in the result list of the last call, when it was a find or a
\* paged that returned.
ResultRecords ==
  IF ret.kind # "return" THEN <<>>
  ELSE IF call.op = "find"
  THEN CASE ret.v.t = "list" -> [i \in 1..Len(ret.v.v) |-> ret.v.v[i].v]
         [] ret.v.t = "dict" -> <<ret.v.v>>
         [] OTHER -> <<>>
  ELSE IF call.op = "paged"
  THEN [i \in 1..Len(ret.v.v["results"].v) |-> ret.v.v["results"].v[i].v]
  ELSE <<>>

\* The stored records of the kind under test that are soft-deleted.
SoftDeleted == {x \in db[ParentCollection] : "deleted_at" \in DOMAIN x}
\* The stored record of the kind under test that a wire record stands for.
StoredOf(rec) == ById(db, ParentCollection, ParseOid(rec["_id"]).val)

\* C1: no soft-deleted record is in the results of find or paged, whatever
\* the parameters (also when they ask for deleted_at themselves), with or
\* without relations; and the first $match stage of a pipeline that find or
\* paged sends selects no soft-deleted record.
C1_NoSoftDeletedInResults ==
  call.op \in {"find", "paged"} =>
    /\ \A i \in 1..Len(ResultRecords) :
         /\ StoredOf(ResultRecords[i]) # {}
         /\ StoredOf(ResultRecords[i]) \cap SoftDeleted = {}
    /\ \A i \in 1..Len(trips) :
         trips[i].op = "aggregate" =>
           \A x \in SoftDeleted : ~Matches(x, trips[i].ag[1].q)

\* A paged call with the relation requested that returned a record while
\* another record, matching its parameters, is soft-deleted.
C1_Witness ==
  /\ call.op = "paged"
  /\ call.relations = {RelName}
  /\ call.params = EmptyMap
  /\ SoftDeleted # {}
  /\ Len(ResultRecords) > 0

\* The stored records of the kind under test with the identifier the string
\* _id names (none when the string names no identifier).
StoredAs(store, _id) ==
  IF ParseOid(_id).ok THEN ById(store, ParentCollection, ParseOid(_id).val) ELSE {}

\* A step that is remove(_id, force) on a kind with soft delete, for the
\* identifier of a stored record.
RemoveOfStored ==
  /\ call = NoCall
  /\ call'.op = "remove"
  /\ schema.softDeletes
  /\ StoredAs(db, call'._id) # {}

\* C2: on a kind with soft delete and for the identifier of a stored record,
\* remove without force leaves the record stored with deleted_at set, and no
\* later find by that identifier returns it (a record that carries deleted_at
\* keeps it for as long as it is stored, so that find never selects it again);
\* remove with force leaves no record stored under the identifier.
C2_RemoveSemantics ==
  [][ /\ RemoveOfStored /\ ~call'.force =>
           /\ StoredAs(db', call'._id) # {}
           /\ \A x \in StoredAs(db', call'._id) : "deleted_at" \in DOMAIN x
      /\ RemoveOfStored /\ call'.force => StoredAs(db', call'._id) = {}
      /\ \A x \in SoftDeleted :
           \A y \in ById(db', ParentCollection, x["_id"]) : "deleted_at" \in DOMAIN y
    ]_vars

\* The related records nested in a wire record under the declared relation.
NestedRecords(rec) ==
  LET value == Get(rec, RelName)
  IN  IF value.t = "list"
      THEN {value.v[i].v : i \in {j \in 1..Len(value.v) : value.v[j].t = "dict"}}
      ELSE IF value.t = "dict" THEN {value.v} ELSE {}

\* A wire record is redacted for its kind: a protected field is present only
\* when it is whitelisted, and a whitelisted field that is stored is present.
Redacted(rec, coll, protected, whitelist) ==
  /\ \A p \in protected : p \in DOMAIN rec => p \in whitelist
  /\ \A p \in protected \cap whitelist :
       \A x \in ById(db, coll, ParseOid(rec["_id"]).val) :
         p \in DOMAIN x => p \in DOMAIN rec

\* C3: every record that find or paged returns, and every related record
\* nested under its relation, has the protected fields of its own kind removed
\* unless they are in force_fetch_protected_fields, and keeps the fields that
\* are in force_fetch_protected_fields.
C3_Redaction ==
  call.op \in {"find", "paged"} =>
    \A i \in 1..Len(ResultRecords) :
      /\ Redacted(ResultRecords[i], ParentCollection, ParentProtected, call.force)
      /\ \A child \in NestedRecords(ResultRecords[i]) :
           Redacted(child, ChildCollection, ChildProtected, call.force)

\* The reserved control keys.
ReservedControlKeys ==
  {"sort", "sort_asc", "sort_desc", "page", "page_size", "relations", "text_fields"}

\* C4: the filter that filter() returns holds none of the reserved control
\* keys, and a top-level $or of the parameter map is in it, unchanged.
C4_NoControlKeysAndOrKept ==
  call.op = "filter" /\ ret.kind = "return" =>
    /\ DOMAIN ret.v.v \cap ReservedControlKeys = {}
    /\ "$or" \in DOMAIN call.params =>
         /\ "$or" \in DOMAIN ret.v.v
         /\ ret.v.v["$or"] = call.params["$or"]

\* The operators of a pipeline's stages, in order.
StageOps(ag) == [i \in 1..Len(ag) |-> ag[i].op]

\* The operators of the stages that fetch one relation of a kind.
LookupOps(type) ==
  IF type = "manyToMany"
  THEN <<"$lookup", "$unwind", "$lookup", "$unwind", "$group">>
  ELSE <<"$lookup">>

\* The fixed order: match, (sort, skip, limit if paginated), the relation's
\* stages, one projection, (sort if paginated).
FixedOrder(type, paginated) ==
  <<"$match">>
    \o (IF paginated THEN <<"$sort", "$skip", "$limit">> ELSE <<>>)
    \o LookupOps(type) \o <<"$project">>
    \o (IF paginated THEN <<"$sort">> ELSE <<>>)

\* The pipelines that the last call sent, when it was a find or a paged with
\* the relation requested.
SentPipelines ==
  IF call.op \in {"find", "paged"} /\ call.relations = {RelName}
  THEN {trips[i].ag : i \in {j \in 1..Len(trips) : trips[j].op = "aggregate"}}
  ELSE {}

\* C5 as stated: the pipeline that find or paged executes for one requested
\* relation has the fixed order, where only paged paginates.
C5_StageOrder ==
  \A ag \in SentPipelines : StageOps(ag) = FixedOrder(schema.type, call.op = "paged")

\* The order of the pipeline find executes: the fixed order without pagination
\* and one sort directly after the match.
FindOrder(type) == <<"$match", "$sort">> \o LookupOps(type) \o <<"$project">>

\* C5 amended: whenever find or paged sends a pipeline, relationships builds
\* the fixed order for every relation kind, with and without pagination; paged executes it as built (always
\* paginated); find executes the unpaginated one with one sort stage put
\* directly after the match; in both the match is first, no lookup precedes
\* it and no lookup follows the one projection.
C5_StageOrderWithFindSort ==
  /\ \A ag \in SentPipelines :
       /\ StageOps(ag) = IF call.op = "paged" THEN FixedOrder(schema.type, TRUE)
                         ELSE FindOrder(schema.type)
       /\ Cardinality({i \in 1..Len(ag) : ag[i].op = "$project"}) = 1
       /\ \A i, j \in 1..Len(ag) :
            ag[i].op = "$lookup" /\ ag[j].op = "$project" => 1 < i /\ i < j
  /\ \A type \in IF SentPipelines # {} THEN RelationKinds ELSE {},
          pagination \in PaginationInputs :
       LET sc == Schema(type, {}, FALSE, FALSE)
       IN  /\ StageOps(relationships(sc, fields, EmptyMap, {RelName}, {},
                                     Given(paginate(pagination))))
                = FixedOrder(type, TRUE)
           /\ StageOps(relationships(sc, fields, EmptyMap, {RelName}, {}, NoPagination))
                = FixedOrder(type, FALSE)

\* A find with the relation requested, on a kind with a manyToMany relation,
\* that sent its pipeline and returned records.
C5_Witness ==
  /\ call.op = "find"
  /\ schema.type = "manyToMany"
  /\ SentPipelines # {}
  /\ Len(ResultRecords) > 0

\* The integer that a requested page or page_size denotes.
NumberOf(x) ==
  CASE x.t = "int" -> x.v
    [] x = S("0") -> 0
    [] x = S("1") -> 1
    [] x = S("2") -> 2

\* The requested value of a pagination key, or its default when absent.
Requested(pagination, key, default) ==
  IF key \in DOMAIN pagination THEN NumberOf(pagination[key]) ELSE default

\* The stored records that are not soft-deleted and match the parameters of
\* the call (none given, or a name that contains "ann" whatever the case).
Countable ==
  {x \in db[ParentCollection] \ SoftDeleted :
     call.params = EmptyMap \/ Get(x, "name") = S("Ann")}

\* C6: paged returns at most page_size results, the count of the stored
\* records that match the filter and are not soft-deleted, whatever page and
\* page_size are, and the requested page and page_size (0 and 50 when absent).
C6_PagedResult ==
  call.op = "paged" /\ ret.kind = "return" =>
    /\ ret.v.v["page"] = IntV(Requested(call.pagination, "page", 0))
    /\ ret.v.v["page_size"] = IntV(Requested(call.pagination, "page_size", 50))
    /\ Len(ResultRecords) <= Requested(call.pagination, "page_size", 50)
    /\ ret.v.v["count"] = IntV(Cardinality(Countable))

\* A paged call for page 1 of size 1 that returned one record of the two that
\* its count reports.
C6_Witness ==
  /\ call.op = "paged"
  /\ ret.kind = "return"
  /\ "page" \in DOMAIN call.pagination
  /\ call.pagination["page"].t = "int"
  /\ ret.v.v["page"] = IntV(1)
  /\ ret.v.v["page_size"] = IntV(1)
  /\ ret.v.v["count"] = IntV(2)
  /\ Len(ResultRecords) = 1

\* The last call was a save, with no failure at the store, of a record
\* without identifier that carries a list of items without identifiers, on a
\* kind whose hasMany relation cascades CREATE.
SaveWithNewItems ==
  /\ call.op = "save"
  /\ call.fail = {}
  /\ schema.type = "hasMany"
  /\ "CREATE" \in schema.cascade
  /\ "_id" \notin DOMAIN call.bus_object
  /\ Get(call.bus_object, RelName).t = "list"
  /\ \A item \in NestedRecords(call.bus_object) : "_id" \notin DOMAIN item

\* The stored related records whose foreign key is the identifier the string
\* _id names.
ChildrenOf(_id) ==
  {x \in db[ChildCollection] : Get(x, Relation(schema).foreignKey) = ParseOid(_id).val}

\* C7: saving a record without identifier with n nested items without
\* identifiers, under a hasMany relation that cascades CREATE, returns the
\* parent with a fresh identifier and a relation array of length n, and the
\* related collection then holds n records with the parent's identifier as
\* foreign key and with created_at and updated_at.
C7_SaveReturnsItems ==
  SaveWithNewItems =>
    LET n == Len(call.bus_object[RelName].v)
    IN  /\ ret.kind = "return"
        /\ StoredAs(db, ret.v.v["_id"]) # {}
        /\ Get(ret.v.v, RelName).t = "list"
        /\ Len(ret.v.v[RelName].v) = n
        /\ Cardinality(ChildrenOf(ret.v.v["_id"])) = n
        /\ \A x \in ChildrenOf(ret.v.v["_id"]) :
             {"created_at", "updated_at"} \subseteq DOMAIN x

\* The last call was a save during which a bulk write against a collection
\* of the relation failed at the store.
BulkFailed ==
  /\ call.op = "save"
  /\ \E i \in 1..Len(trips) : trips[i].op = "bulk" /\ ~trips[i].ok

\* C8: a bulk write that fails during a cascading save is not propagated:
\* save returns the parent's wire representation, and the parent written
\* before the cascade is stored.
C8_BulkFailureNotPropagated ==
  BulkFailed =>
    /\ ret.kind = "return"
    /\ ret.v.t = "dict"
    /\ StoredAs(db, Get(ret.v.v, "_id")) # {}

\* The errors of coercion and of filter compilation.
CoercionErrors == {"InvalidIdentifier", "InvalidDate"}

\* C9: a find, count, paged, save or remove that fails on a malformed
\* identifier or date (of the parameters, of the record, or of a nested item
\* of a save) fails before its first store round trip and leaves the store as
\* it was.
C9_MalformedBeforeStore ==
  [][ /\ call'.op \in {"find", "count", "paged", "save", "remove"}
      /\ ret'.kind = "raise"
      /\ ret'.err \in CoercionErrors
      => trips' = <<>> /\ db' = db ]_vars

\* A step that is remove(_id, force) for a well-formed identifier under which
\* no record is visible: none is stored, or the stored one is soft-deleted.
RemoveOfInvisible ==
  /\ call = NoCall
  /\ call'.op = "remove"
  /\ ParseOid(call'._id).ok
  /\ StoredAs(db, call'._id) \subseteq SoftDeleted

\* The trips of a call that write to a collection.
Writes(sent) ==
  {i \in 1..Len(sent) : sent[i].op \in {"save", "update", "remove", "bulk"}}

\* C10: remove on the soft-delete path for an identifier with no visible
\* record fails (the not-found error) without a write to any collection;
\* remove on the hard-delete path for an identifier that is not stored does
\* not fail and reports that nothing was removed.
C10_RemoveOfMissing ==
  [][ RemoveOfInvisible =>
        IF schema.softDeletes /\ ~call'.force
        THEN ret'.kind = "raise" /\ Writes(trips') = {} /\ db' = db
        ELSE StoredAs(db, call'._id) = {} =>
               /\ ret' = Return(Dict([k \in {"n"} |-> IntV(0)]))
               /\ db' = db ]_vars

\* The ordering the precedence sort_asc > sort_desc > sort > default gives.
SortByPrecedence(p) ==
  IF "sort_asc" \in DOMAIN p THEN SortOf(SplitComma(p["sort_asc"].v), 1)
  ELSE IF "sort_desc" \in DOMAIN p THEN SortOf(SplitComma(p["sort_desc"].v), -1)
  ELSE IF "sort" \in DOMAIN p
  THEN IF IntOf(p["sort"]).ok THEN <<[k |-> "_id", d |-> IntOf(p["sort"]).val]>>
       ELSE SortOfDict(p["sort"])
  ELSE <<[k |-> "_id", d |-> 1]>>

\* C11: sort_query resolves the ordering by the precedence sort_asc >
\* sort_desc > sort > default: with sort_asc supplied the result is its
\* fields ascending whatever sort_desc and sort hold; otherwise with
\* sort_desc supplied its fields descending whatever sort holds; otherwise
\* sort (an integer n gives {_id: n}, a mapping is used as is); otherwise
\* {_id: 1}.
C11_SortPrecedence ==
  call.op = "sort_query" => ret.v.v = SortByPrecedence(call.params)

\* The query returned by filter holds exactly v under "_id".
EmitsForId(v) ==
  /\ ret.kind = "return"
  /\ "_id" \in DOMAIN ret.v.v
  /\ ret.v.v["_id"] = v

\* C12: for a parameter naming a declared ObjectId field, filter emits the
\* parsed identifier for a string, the same operator document with every $in
\* element parsed for a {"$in": [...]} value, the value itself for an
\* already-typed identifier, and fails with the unsupported-filter-shape
\* error for every other shape (a mapping without $in or with an empty $in
\* included) rather than emitting nothing for the field.
C12_ObjectIdShapes ==
  call.op = "filter_id" =>
    LET p == call.params["_id"]
    IN  CASE p.t = "str" ->
               ParseOid(p).ok => EmitsForId(ParseOid(p).val)
          [] p.t = "dict" /\ Truthy(Get(p.v, "$in")) ->
               ParseOidList(p.v["$in"].v).ok =>
                 EmitsForId(Dict(Put(p.v, "$in", List(ParseOidList(p.v["$in"].v).val))))
          [] p.t = "oid" -> EmitsForId(p)
          [] OTHER -> ret = Raise("UnsupportedFilterShape")

\* The fields of the last round trip that the registry declared with a type
\* when it was called.
RoundTripFields(type) ==
  {f \in DOMAIN call.params \cap DOMAIN call.declared : call.declared[f] = type}
\* Every declared identifier and date given to the last round trip is valid.
RoundTripValid ==
  /\ \A f \in RoundTripFields(TObjectId) : ParseOid(call.params[f]).ok
  /\ \A f \in RoundTripFields(TISODate) :
       /\ call.params[f].v # <<>>
       /\ \E n \in AllSecs : call.params[f].v[1] = SecStr(n)
\* The last round trip returned, with the string chunks under field f.
RoundTripGives(f, chunks) ==
  /\ ret.kind = "return"
  /\ f \in DOMAIN ret.v.v
  /\ ret.v.v[f] = Str(chunks)
\* Lower case of an identifier string.
LowerHex(c) ==
  CASE c = "ID1" -> "id1" [] c = "ID2" -> "id2" [] OTHER -> c

\* C13 as stated: the round trip of a valid identifier string gives the string
\* itself, and the round trip of a valid date string gives its first 19
\* characters followed by Z, whatever was called on the model before.
C13_RoundTrip ==
  call.op = "round_trip" /\ RoundTripValid =>
    /\ \A f \in RoundTripFields(TObjectId) :
         RoundTripGives(f, call.params[f].v)
    /\ \A f \in RoundTripFields(TISODate) :
         RoundTripGives(f, <<Head(call.params[f].v), "Z">>)

\* C13 as the code has it: the round trip of a valid identifier string gives
\* the string in lower case (itself when it is written in lower case), and
\* the round trip of a valid date string gives its first 19 characters
\* followed by Z, whatever was called on the model before.
C13_RoundTripLowerCase ==
  call.op = "round_trip" /\ RoundTripValid =>
    /\ \A f \in RoundTripFields(TObjectId) :
         RoundTripGives(f, <<LowerHex(call.params[f].v[1])>>)
    /\ \A f \in RoundTripFields(TISODate) :
         RoundTripGives(f, <<Head(call.params[f].v), "Z">>)

\* A round trip, after the registry was changed by an earlier call, of a
\* date string with a fraction next to an identifier in lower case, which
\* returned both.
C13_Witness ==
  /\ call.op = "round_trip"
  /\ call.declared # ParentDeclared
  /\ RoundTripValid
  /\ RoundTripFields(TObjectId) # {}
  /\ \E f \in RoundTripFields(TISODate) : Len(call.params[f].v) = 3
  /\ call.params["_id"].v = <<"id1">>
  /\ ret.kind = "return"

\* The positions of the aggregation requests among the round trips of the
\* last call.
AggregationTrips == {i \in 1..Len(trips) : trips[i].op = "aggregate"}

TimestampFields == {"created_at", "updated_at", "deleted_at"}

\* C15: in every write path (the save of the record and the cascaded write
\* of each nested relation item) no field is persisted that the kind being
\* written does not declare: the keys of every stored document are among its
\* kind's declared fields and the three timestamp fields.
C15_OnlyDeclaredPersisted ==
  /\ \A x \in db[ParentCollection] :
       DOMAIN x \subseteq DOMAIN ParentDeclared \cup TimestampFields
  /\ \A x \in db[ChildCollection] :
       DOMAIN x \subseteq DOMAIN ChildDeclared \cup TimestampFields

\* Whether every piece of the result of the last _split call is stripped and
\* not empty, and the pieces are those of the text in order.
SplitAsStated ==
  LET out == ret.v.v
      text == call.text
  IN  /\ \A i \in 1..Len(out) : out[i] # "" /\ out[i] # " "
      /\ ~(\E i \in 1..Len(text) : text[i] = call.separator) =>
           out = IF Strip(text) = <<>> THEN <<>> ELSE <<Join(Strip(text))>>
      /\ text = <<" ", "a", ",">> /\ call.separator = "," => out = <<"a">>
      /\ text = <<"a", ",", "b">> /\ call.separator = "," => out = <<"a", "b">>
      /\ text = <<"a", ",", "b">> /\ call.separator = "." => out = <<"a,b">>
      /\ text = <<"a", " ", "b">> /\ call.separator = " " => out = <<"a", "b">>
      /\ text = <<",", ",", "b">> /\ call.separator = "," => out = <<"b">>

\* C16: _split returns, in order, the pieces of the text between occurrences
\* of the separator, each stripped of surrounding whitespace, the empty ones
\* dropped; and the field lists sort_asc and sort_desc are tokenized this
\* way: the fields of the ordering are the _split pieces of the list.
C16_SplitTokens ==
  /\ call.op = "_split" => SplitAsStated
  /\ call.op = "sort_query" =>
       LET key == CHOOSE k \in DOMAIN call.params : TRUE
       IN  ret.v.v = SortOf(Split(call.params[key].v, ","),
                            IF key = "sort_asc" THEN 1 ELSE -1)

\* The documents of a collection that a step wrote: those of the new store
\* that the old store did not hold as they are.
Written(coll) == db'[coll] \ db[coll]

\* C17: every stored record, parent or cascaded child, that a persisted
\* mutation changed (a soft delete included) has updated_at equal to the time
\* of that mutation, a reading of the clock during the call; and a created
\* record has created_at equal to its updated_at.
C17_UpdatedAtRefreshed ==
  [][\A coll \in {ParentCollection, ChildCollection} :
       \A y \in Written(coll) :
         /\ "updated_at" \in DOMAIN y
         /\ y["updated_at"].t = "date"
         /\ y["updated_at"].v \in {now, now + 1}
         /\ ById(db, coll, y["_id"]) = {} =>
              /\ "created_at" \in DOMAIN y
              /\ y["created_at"] = y["updated_at"]]_vars

\* C18: no caller-facing operation changes the field registry: after any
\* sequence of calls the declared fields and their types are those of the
\* definition.
C18_RegistryUnchanged == fields = ParentDeclared

\* The operation of the call a step makes: DELETE for remove; for save,
\* UPDATE when the record is given with an identifier and CREATE otherwise.
OperationOf(c) ==
  IF c.op = "remove" THEN "DELETE"
  ELSE IF Truthy(Get(c.bus_object, "_id")) THEN "UPDATE" ELSE "CREATE"

\* C19: a save or remove step touches the related collection or the join
\* collection only if the relation's cascade set holds the step's operation;
\* and the record a save writes is stamped with created_at, and is given a
\* fresh identifier, exactly when that operation is CREATE.
C19_CascadePolicy ==
  [][call'.op \in {"save", "remove"} =>
       /\ (\/ db'[ChildCollection] # db[ChildCollection]
           \/ db'[JoinCollection] # db[JoinCollection]
           \/ \E i \in 1..Len(trips') :
                trips'[i].coll \in {ChildCollection, JoinCollection})
            => OperationOf(call') \in schema.cascade
       /\ call'.op = "save" =>
            \A y \in Written(ParentCollection) :
              /\ (OperationOf(call') = "CREATE")
                   = (y["_id"] = Oid(nextId) /\ nextId' > nextId)
              /\ (OperationOf(call') = "CREATE")
                   = ("created_at" \in DOMAIN y /\ Get(y, "created_at") = Date(now))]_vars

\* A save of a record given with its identifier and with nested items, on a
\* relation whose cascade set holds CREATE only, that returned without a
\* round trip to the related collection although the store holds related
\* records.
C19_Witness ==
  /\ call.op = "save"
  /\ schema.cascade = {"CREATE"}
  /\ Truthy(Get(call.bus_object, "_id"))
  /\ RelName \in DOMAIN call.bus_object
  /\ ret.kind = "return"
  /\ db[ChildCollection] # {}
  /\ \A i \in 1..Len(trips) : trips[i].coll = ParentCollection

\* The rows of the join collection whose local join key is the identifier id.
JoinRowsOf(store, id) ==
  {x \in store[JoinCollection] : Get(x, Relation(schema).localJoinKey) = id}
\* The pairs (parent, foreign key of the item) for the items of a nested list.
PairsOf(id, items) ==
  { [k \in {Relation(schema).localJoinKey, Relation(schema).foreignJoinKey} |->
       IF k = Relation(schema).localJoinKey THEN id
       ELSE ParseOid(items[i].v[Relation(schema).foreignKey]).val] :
    i \in 1..Len(items) }
\* The step is a save that returned, of a record with a nested list under the
\* manyToMany relation, whose cascade set permits the operation.
ManyToManySave ==
  /\ call'.op = "save"
  /\ schema.type = "manyToMany"
  /\ ret'.kind = "return"
  /\ Get(call'.bus_object, RelName).t = "list"
  /\ OperationOf(call') \in schema.cascade

\* C20: after a save of a parent with a nested list under a manyToMany
\* relation whose cascade permits the operation, the join rows of the parent
\* are exactly the pairs (parent, foreign key of item) for the items of the
\* list, the previous membership gone, and the rows of other parents are
\* untouched; so a second save of the same record leaves the join collection
\* as the first one left it.
C20_JoinMembership ==
  [][ManyToManySave =>
       LET id == ParseOid(ret'.v.v["_id"]).val
       IN  /\ JoinRowsOf(db', id) = PairsOf(id, call'.bus_object[RelName].v)
           /\ db'[JoinCollection] \ JoinRowsOf(db', id)
                = db[JoinCollection] \ JoinRowsOf(db, id)]_vars

\* The related records of the store.
Related == db[ChildCollection]

\* The stored related records that a wire record of the relation value
\* stands for.
RelatedOf(e) ==
  IF ParseOid(Get(e, "_id")).ok
  THEN ById(db, ChildCollection, ParseOid(e["_id"]).val)
  ELSE {}

\* C21: in the results of find and paged with the relation requested, on a
\* kind whose relation is hasMany, belongsToMany or manyToMany, the relation
\* value of a result is an array that holds no related record whose
\* deleted_at is set; and the condition of the projection's filter is false
\* on a stored related record with deleted_at and true on one without it.
C21_NoDeletedRelated ==
  call.op \in {"find", "paged"} /\ RelName \in call.relations
    /\ schema.type \in ListKinds =>
    \A i \in 1..Len(ResultRecords) :
      RelName \in DOMAIN ResultRecords[i] =>
        /\ ResultRecords[i][RelName].t = "list"
        /\ \A e \in NestedRecords(ResultRecords[i]) :
             \A x \in RelatedOf(e) : "deleted_at" \notin DOMAIN x
        /\ \A x \in Related : FilterCond(x) = ("deleted_at" \notin DOMAIN x)

====
